---- MODULE Spec2Model ----
(***************************************************************************)
(* Personal Expense Tracker (src/pet.py): the CSV backing file, the        *)
(* ExpenseStorage operations on it, the ExpenseAnalyzer filters and the    *)
(* four commands of main().                                                *)
(*                                                                         *)
(* A text is a sequence of one-character strings.  The backing file is a   *)
(* text, written and parsed character by character as csv.DictWriter and   *)
(* csv.DictReader (dialect "excel") do it.                                 *)
(*                                                                         *)
(* A float is [k, n]: k = "fin" with n counting 1/6400ths (so that both    *)
(* the binary fractions j/256 = 25j/6400 typed on the command line and the *)
(* cent values c/100 = 64c/6400 read back from the file are integers), or  *)
(* k = "bad" for a text float() rejects.  A value 64c stands for the       *)
(* double nearest to c/100.  The amounts of the model are finite and >= 0. *)
(***************************************************************************)
EXTENDS Integers, Sequences, FiniteSets, TLC

VARIABLES
  file,      \* the backing file self.filepath: [exists, text]
  perm,      \* what Path.open is allowed: [r, w]
  cmd,       \* args of the last command line (parser.parse_args())
  pre,       \* the backing file as the last command found it
  ensured,   \* the backing file after the last command's ExpenseStorage()
  ok,        \* the ok of the last add or delete
  err,       \* how the last command ended: "none" (result line printed),
             \* "usage" (argparse refused it), "io" (OSError left main),
             \* "value" (ValueError left main)
  shown,     \* the lines format_table printed: [idx, rec]
  total,     \* the total the last list or summary printed
  fRecords,  \* filter_by_month on its own: expenses
  fMonth,    \*   month
  fYear,     \*   year (NoInt for None)
  fToday,    \*   datetime.now()
  fApplied,  \*   whether the call was made
  fResult    \*   what it returned

storeVars == <<file, perm, cmd, pre, ensured, ok, err, shown, total>>

filterVars == <<fRecords, fMonth, fYear, fToday, fApplied, fResult>>

vars == <<file, perm, cmd, pre, ensured, ok, err, shown, total,
          fRecords, fMonth, fYear, fToday, fApplied, fResult>>

(* ------------------------------ bounds -------------------------------- *)

\* Most data rows the backing file holds in the store specifications.
MaxRows == 3

\* Longest record sequence handed to filter_by_month in SpecFilter.
MaxRecs == 3

(* ------------------------------- texts -------------------------------- *)

CR == "\r"
LF == "\n"
Comma == ","
Quote == "\""

Digits == <<"0", "1", "2", "3", "4", "5", "6", "7", "8", "9">>

IsDigit(c) == \E d \in 1..10 : Digits[d] = c

DigitVal(c) == (CHOOSE d \in 1..10 : Digits[d] = c) - 1

RECURSIVE NatText(_)
NatText(n) ==
  IF n < 10 THEN <<Digits[n + 1]>>
  ELSE NatText(n \div 10) \o <<Digits[(n % 10) + 1]>>

AllDigits(t) == \A i \in 1..Len(t) : IsDigit(t[i])

RECURSIVE NatValFrom(_, _, _)
NatValFrom(t, i, acc) ==
  IF i > Len(t) THEN acc ELSE NatValFrom(t, i + 1, acc * 10 + DigitVal(t[i]))

NatVal(t) == NatValFrom(t, 1, 0)

\* Position of the first c in t at or after i, or 0.
RECURSIVE FindFrom(_, _, _)
FindFrom(t, c, i) ==
  IF i > Len(t) THEN 0 ELSE IF t[i] = c THEN i ELSE FindFrom(t, c, i + 1)

\* A value that is no text: a missing dictionary entry, an omitted option.
None == <<"<None>">>

(* ------------------------------- floats ------------------------------- *)

Fin(n) == [k |-> "fin", n |-> n]
BadFloat == [k |-> "bad", n |-> 0]

\* v <= 0 on floats.
FloatLeqZero(v) == v.n <= 0

\* v > 0 on floats.
FloatGtZero(v) == v.n > 0

\* a + b on floats.
FloatAdd(a, b) == Fin(a.n + b.n)

\* n/64 rounded to the nearest integer, ties to the even one: the cents of
\* a non-negative n/6400, as "%.2f" rounds the exact binary value.
RoundHalfEven64(n) ==
  LET q == n \div 64
      r == n % 64
  IN  IF r < 32 THEN q
      ELSE IF r > 32 THEN q + 1
      ELSE IF q % 2 = 0 THEN q ELSE q + 1

TwoDigits(n) == <<Digits[(n \div 10) + 1], Digits[(n % 10) + 1]>>

\* f"{amount:.2f}" (line 39), for amount >= 0.
FormatFixed2(v) ==
  LET c == RoundHalfEven64(v.n)
  IN  NatText(c \div 100) \o <<".">> \o TwoDigits(c % 100)

\* str(amount) of a float read back from the file, as csv writes a float
\* (line 77): the shortest decimal that reads back to the same float.
FloatRepr(v) ==
  LET c == v.n \div 64
      f == c % 100
  IN  NatText(c \div 100) \o <<".">> \o
        (IF f % 10 = 0 THEN <<Digits[(f \div 10) + 1]>> ELSE TwoDigits(f))

\* float(text) (line 55) on the amount texts a file can hold: digits with
\* at most two decimals; for any other text of the model it raises ValueError.
ParseFloat(t) ==
  LET dot == FindFrom(t, ".", 1)
      ip == IF dot = 0 THEN t ELSE SubSeq(t, 1, dot - 1)
      fp == IF dot = 0 THEN <<>> ELSE SubSeq(t, dot + 1, Len(t))
  IN  IF /\ AllDigits(ip) /\ AllDigits(fp)
              /\ Len(ip) + Len(fp) > 0 /\ Len(fp) <= 2
      THEN Fin(64 * (100 * NatVal(ip)
                     + (IF Len(fp) = 1 THEN 10 * NatVal(fp) ELSE NatVal(fp))))
      ELSE BadFloat

(* -------------------------- csv, dialect excel ------------------------ *)

\* self.headers (line 20).
Headers ==
  << <<"d", "a", "t", "e">>,
     <<"a", "m", "o", "u", "n", "t">>,
     <<"c", "a", "t", "e", "g", "o", "r", "y">>,
     <<"d", "e", "s", "c", "r", "i", "p", "t", "i", "o", "n">> >>

NeedsQuote(f) ==
  \E i \in 1..Len(f) : f[i] \in {Comma, Quote, CR, LF}

RECURSIVE DoubleQuotes(_, _)
DoubleQuotes(f, i) ==
  IF i > Len(f) THEN <<>>
  ELSE (IF f[i] = Quote THEN <<Quote, Quote>> ELSE <<f[i]>>)
         \o DoubleQuotes(f, i + 1)

\* One field as csv.writer writes it under QUOTE_MINIMAL; None is written
\* as the empty field.
CsvField(f) ==
  IF f = None THEN <<>>
  ELSE IF NeedsQuote(f) THEN <<Quote>> \o DoubleQuotes(f, 1) \o <<Quote>>
  ELSE f

\* writerow: the fields joined by the delimiter, ended by "\r\n".
CsvRow(fields) ==
  CsvField(fields[1]) \o <<Comma>> \o CsvField(fields[2]) \o <<Comma>> \o
  CsvField(fields[3]) \o <<Comma>> \o CsvField(fields[4]) \o <<CR, LF>>

\* The text a file opened without newline="" hands to its reader (line 52):
\* "\r\n" and a lone "\r" both arrive as "\n".
UniversalNewlines(t) ==
  LET NotAfterCR(i) == ~(t[i] = LF /\ i > 1 /\ t[i - 1] = CR)
  IN  CHOOSE u \in
        { [j \in 1..Len(kept) |-> IF t[kept[j]] = CR THEN LF ELSE t[kept[j]]] \o <<>> :
            kept \in {SelectSeq([i \in 1..Len(t) |-> i], NotAfterCR)} } : TRUE

\* The state of csv.reader: st is the parser state of _csv.c ("start_record",
\* "start_field", "in_field", "in_quoted", "quote_in_quoted"), fld the field
\* being read, row the fields of the record being read, rows the records read.
Parser(st, fld, row, rows) == [st |-> st, fld |-> fld, row |-> row, rows |-> rows]

\* One character through the parser.  A line end outside quotes ends the
\* record; inside quotes it is part of the field.
CsvStep(s, c) ==
  LET nl == c = LF \/ c = CR
  IN
  IF s.st = "start_record" \/ s.st = "start_field"
  THEN IF nl
       THEN Parser("start_record", <<>>, <<>>,
                   Append(s.rows, IF s.st = "start_record" THEN <<>>
                                  ELSE Append(s.row, <<>>)))
       ELSE IF c = Quote THEN Parser("in_quoted", <<>>, s.row, s.rows)
       ELSE IF c = Comma
       THEN Parser("start_field", <<>>, Append(s.row, <<>>), s.rows)
       ELSE Parser("in_field", <<c>>, s.row, s.rows)
  ELSE IF s.st = "in_field"
  THEN IF nl
       THEN Parser("start_record", <<>>, <<>>, Append(s.rows, Append(s.row, s.fld)))
       ELSE IF c = Comma
       THEN Parser("start_field", <<>>, Append(s.row, s.fld), s.rows)
       ELSE Parser("in_field", Append(s.fld, c), s.row, s.rows)
  ELSE IF s.st = "in_quoted"
  THEN IF c = Quote THEN Parser("quote_in_quoted", s.fld, s.row, s.rows)
       ELSE Parser("in_quoted", Append(s.fld, c), s.row, s.rows)
  ELSE IF c = Quote
       THEN Parser("in_quoted", Append(s.fld, Quote), s.row, s.rows)
       ELSE IF c = Comma
       THEN Parser("start_field", <<>>, Append(s.row, s.fld), s.rows)
       ELSE IF nl
       THEN Parser("start_record", <<>>, <<>>, Append(s.rows, Append(s.row, s.fld)))
       ELSE Parser("in_field", Append(s.fld, c), s.row, s.rows)

\* The characters t[lo..hi] through the parser, in order: the first half,
\* then the second half from the state the first half ends in.
RECURSIVE CsvRun(_, _, _, _)
CsvRun(t, lo, hi, s) ==
  IF lo > hi THEN s
  ELSE IF lo = hi THEN CsvStep(s, t[lo])
  ELSE LET mid == (lo + hi) \div 2
       IN  CHOOSE r \in {CsvRun(t, mid + 1, hi, half) :
                           half \in {CsvRun(t, lo, mid, s)}} : TRUE

\* The rows csv.reader yields for the file text t; a last record that no
\* line end closes is yielded at the end of the file.
CsvRows(t) ==
  CHOOSE rows \in
    { IF s.st = "start_record" THEN s.rows ELSE Append(s.rows, Append(s.row, s.fld)) :
        s \in { CsvRun(u, 1, Len(u), Parser("start_record", <<>>, <<>>, <<>>)) :
                  u \in {UniversalNewlines(t)} } } : TRUE

\* row.get(name) of csv.DictReader: the field under the column the header
\* row names, None when the header has no such column or the row is short.
DictGet(fieldnames, row, name) ==
  LET cols == {j \in 1..Len(fieldnames) : fieldnames[j] = name}
  IN  IF cols = {} THEN None
      ELSE LET j == CHOOSE x \in cols : \A y \in cols : y <= x
           IN  IF j <= Len(row) THEN row[j] ELSE None

(* --------------------------- ExpenseStorage --------------------------- *)

\* The backing file is [exists, text]; perm is [r, w]: whether the file can
\* be opened for reading, and whether it can be created or opened for writing.
File(e, t) == [exists |-> e, text |-> t]

HeaderRow == CsvRow(Headers)

\* _ensure_file_exists without its test of existence: the header is written
\* over whatever the file holds.
EnsureAlwaysWrites(f, p) ==
  IF ~p.w THEN [file |-> f, raised |-> TRUE]
  ELSE [file |-> File(TRUE, HeaderRow), raised |-> FALSE]

\* _ensure_file_exists (called by __init__): no handler around the open.
EnsureFileExists(f, p) ==
  IF f.exists THEN [file |-> f, raised |-> FALSE]
  ELSE IF ~p.w THEN [file |-> f, raised |-> TRUE]
  ELSE [file |-> File(TRUE, HeaderRow), raised |-> FALSE]

\* date or datetime.now().strftime("%Y-%m-%d") (line 36).
DateOrToday(date, today) == IF date = None \/ date = <<>> THEN today ELSE date

\* save_expense: every exception is caught and turned into False.
SaveExpense(f, p, amount, category, description, date, today) ==
  LET row == <<DateOrToday(date, today), FormatFixed2(amount), category, description>>
  IN  IF ~p.w THEN [file |-> f, ok |-> FALSE]
      ELSE [file |-> File(TRUE, (IF f.exists THEN f.text ELSE <<>>) \o CsvRow(row)),
            ok |-> TRUE]

\* The dictionaries csv.DictReader yields for the rows after the header row,
\* blank lines skipped, before the amount is examined.
RECURSIVE DictRows(_, _, _)
DictRows(fieldnames, rows, i) ==
  IF i > Len(rows) THEN <<>>
  ELSE IF rows[i] = <<>> THEN DictRows(fieldnames, rows, i + 1)
  ELSE << [date        |-> DictGet(fieldnames, rows[i], Headers[1]),
           amount      |-> DictGet(fieldnames, rows[i], Headers[2]),
           category    |-> DictGet(fieldnames, rows[i], Headers[3]),
           description |-> DictGet(fieldnames, rows[i], Headers[4])] >>
         \o DictRows(fieldnames, rows, i + 1)

\* The rows of the file that have a non-empty amount field (line 57).
RawRecords(t) ==
  CHOOSE raw \in
    { IF rows = <<>> THEN <<>>
      ELSE SelectSeq(DictRows(rows[1], rows, 2),
                     LAMBDA r : r.amount # None /\ r.amount # <<>>) :
        rows \in {CsvRows(t)} } : TRUE

\* load_expenses: [] for an absent file, [] for any other exception (an
\* unreadable file, an amount float() rejects), else the records in file order
\* with the amount parsed.
LoadExpenses(f, p) ==
  IF ~f.exists \/ ~p.r THEN <<>>
  ELSE CHOOSE recs \in
         { IF \E i \in 1..Len(raw) : ParseFloat(raw[i].amount).k = "bad" THEN <<>>
           ELSE [i \in 1..Len(raw) |->
                   [raw[i] EXCEPT !.amount = ParseFloat(raw[i].amount)]] \o <<>> :
             raw \in {RawRecords(f.text)} } : TRUE

RECURSIVE WriteRows(_, _)
WriteRows(expenses, i) ==
  IF i > Len(expenses) THEN <<>>
  ELSE CsvRow(<<expenses[i].date, FloatRepr(expenses[i].amount),
                expenses[i].category, expenses[i].description>>)
         \o WriteRows(expenses, i + 1)

\* _overwrite_expenses: no handler around the open; the header, then each
\* record as csv writes the dictionary, the amount being a float by now.
OverwriteExpenses(f, p, expenses) ==
  IF ~p.w THEN [file |-> f, raised |-> TRUE]
  ELSE [file |-> File(TRUE, HeaderRow \o WriteRows(expenses, 1)), raised |-> FALSE]

\* expenses.pop() in place of expenses.pop(index): the last record goes.
PopLast(expenses, index) == SubSeq(expenses, 1, Len(expenses) - 1)

\* expenses.pop(index) for 0 <= index < len(expenses).
Pop(expenses, index) ==
  SubSeq(expenses, 1, index) \o SubSeq(expenses, index + 2, Len(expenses))

\* delete_expense without the lower bound of its range test: a negative index
\* counts from the end, as list.pop takes it.
DeleteExpenseNoLowerBound(f, p, index) ==
  CHOOSE result \in
    { IF index < Len(expenses) /\ -index <= Len(expenses)
      THEN CHOOSE r \in { [file |-> w.file, ok |-> TRUE, raised |-> w.raised] :
                            w \in {OverwriteExpenses(f, p,
                                     Pop(expenses, IF index < 0
                                                   THEN Len(expenses) + index
                                                   ELSE index))} } : TRUE
      ELSE [file |-> f, ok |-> FALSE, raised |-> FALSE] :
        expenses \in {LoadExpenses(f, p)} } : TRUE

\* delete_expense.
DeleteExpense(f, p, index) ==
  CHOOSE result \in
    { IF 0 <= index /\ index < Len(expenses)
      THEN CHOOSE r \in { [file |-> w.file, ok |-> TRUE, raised |-> w.raised] :
                            w \in {OverwriteExpenses(f, p, Pop(expenses, index))} } : TRUE
      ELSE [file |-> f, ok |-> FALSE, raised |-> FALSE] :
        expenses \in {LoadExpenses(f, p)} } : TRUE

(* --------------------------- ExpenseAnalyzer -------------------------- *)

IsLeap(y) == (y % 4 = 0 /\ y % 100 # 0) \/ y % 400 = 0

DaysInMonth(y, m) ==
  IF m = 2 THEN (IF IsLeap(y) THEN 29 ELSE 28)
  ELSE IF m \in {4, 6, 9, 11} THEN 30 ELSE 31

\* datetime.strptime(t, "%Y-%m-%d"): four digits, "-", a month of one or two
\* digits in 1..12, "-", a day of one or two digits that the month has;
\* ok = FALSE stands for the ValueError.
ParseDate(t) ==
  LET d1 == FindFrom(t, "-", 1)
      d2 == IF d1 = 0 THEN 0 ELSE FindFrom(t, "-", d1 + 1)
      ys == SubSeq(t, 1, d1 - 1)
      ms == SubSeq(t, d1 + 1, d2 - 1)
      ds == SubSeq(t, d2 + 1, Len(t))
      bad == [ok |-> FALSE, year |-> 0, month |-> 0, day |-> 0]
  IN  IF d1 = 0 \/ d2 = 0 THEN bad
      ELSE IF ~(/\ Len(ys) = 4 /\ AllDigits(ys)
                /\ Len(ms) \in {1, 2} /\ AllDigits(ms)
                /\ Len(ds) \in {1, 2} /\ AllDigits(ds)) THEN bad
      ELSE LET y == NatVal(ys)
               m == NatVal(ms)
               d == NatVal(ds)
           IN  IF y >= 1 /\ m >= 1 /\ m <= 12 /\ d >= 1 /\ d <= DaysInMonth(y, m)
               THEN [ok |-> TRUE, year |-> y, month |-> m, day |-> d]
               ELSE bad

\* An option that was not given (argparse leaves None).
NoInt == -1

\* filter_by_month without its test of the year.
FilterByMonthAnyYear(expenses, month, year, today) ==
  LET Matches(e) == ParseDate(e.date).month = month
  IN  IF \E i \in 1..Len(expenses) : ~ParseDate(expenses[i].date).ok
      THEN [ok |-> FALSE, recs |-> <<>>]
      ELSE [ok |-> TRUE, recs |-> SelectSeq(expenses, Matches)]

\* filter_by_month: the records whose parsed date has the month and the year,
\* in input order; ok = FALSE when strptime raises on a record's date.
FilterByMonth(expenses, month, year, today) ==
  LET y == IF year = NoInt THEN ParseDate(today).year ELSE year
      Matches(e) == \E d \in {ParseDate(e.date)} : d.month = month /\ d.year = y
  IN  IF \E i \in 1..Len(expenses) : ~ParseDate(expenses[i].date).ok
      THEN [ok |-> FALSE, recs |-> <<>>]
      ELSE [ok |-> TRUE, recs |-> SelectSeq(expenses, Matches)]

\* str.lower() on the letters the model's texts use.
LowerChar(c) ==
  IF c = "F" THEN "f" ELSE IF c = "G" THEN "g" ELSE c

Lower(t) == [i \in 1..Len(t) |-> LowerChar(t[i])]

\* filter_by_category: case-insensitive exact match.
FilterByCategory(expenses, category) ==
  SelectSeq(expenses, LAMBDA e : Lower(e.category) = Lower(category))

RECURSIVE SumAmounts(_, _)
SumAmounts(expenses, i) ==
  IF i > Len(expenses) THEN Fin(0)
  ELSE FloatAdd(expenses[i].amount, SumAmounts(expenses, i + 1))

(* --------------------------- ExpenseFormatter ------------------------- *)

\* format_table: one line per record, numbered by its position in the list
\* it is given when show_index is set.
FormatTable(expenses, showIndex) ==
  [i \in 1..Len(expenses) |->
     [idx |-> IF showIndex THEN i - 1 ELSE NoInt, rec |-> expenses[i]]]

\* format_summary raises when it parses the date of a record (line 167).
FormatSummaryRaises(expenses) ==
  Len(expenses) > 0 /\ \E i \in 1..Len(expenses) : ~ParseDate(expenses[i].date).ok

\* validate_amount: float(s), then v <= 0 is refused.
ValidateAmount(v) == v.k # "bad" /\ ~FloatLeqZero(v)

(* ------------------------------- inputs ------------------------------- *)

DateJan == <<"2", "0", "2", "5", "-", "0", "1", "-", "1", "5">>
DateFeb == <<"2", "0", "2", "5", "-", "0", "2", "-", "0", "3">>
DateOld == <<"2", "0", "2", "4", "-", "0", "1", "-", "3", "1">>
DateSlash == <<"2", "0", "2", "5", "/", "0", "2", "/", "0", "3">>

\* What datetime.now().strftime("%Y-%m-%d") can return.
Todays == { <<"2", "0", "2", "5", "-", "0", "3", "-", "0", "9">> }

General == <<"G", "e", "n", "e", "r", "a", "l">>
Food == <<"F", "o", "o", "d">>
food == <<"f", "o", "o", "d">>

Perms == {[r |-> TRUE, w |-> TRUE], [r |-> TRUE, w |-> FALSE],
          [r |-> FALSE, w |-> TRUE]}

\* Command lines of "add": the amount argument as the float it denotes, the
\* description, -c (None when not given) and -d (None when not given).
AddArg(a, d, c, dt) == [amount |-> a, description |-> d, category |-> c, date |-> dt]

AddInputs ==
  { AddArg(Fin(26880), <<"x">>, Food, DateJan),             \* add 4.20 x -c Food -d 2025-01-15
    AddArg(Fin(25), <<"t">>, None, None),                   \* add 0.00390625 t
    AddArg(Fin(6400), <<"a", CR, "b">>, food, DateFeb),     \* add 1 $'a\rb' -c food -d 2025-02-03
    AddArg(Fin(800), <<Comma, Quote>>, None, DateSlash),    \* add 0.125 ',"' -d 2025/02/03
    AddArg(Fin(0), <<"x">>, None, None),                    \* add 0 x
    AddArg(BadFloat, <<"x">>, None, None) }                 \* add abc x

\* Command lines of "list" and "summary": --month, --year (NoInt when not
\* given), -c (None when not given), --show-index.
ViewArg(m, y, c, s) == [month |-> m, year |-> y, category |-> c, showIndex |-> s]

ListInputs ==
  { ViewArg(NoInt, NoInt, None, TRUE),
    ViewArg(2, 2025, None, TRUE),
    ViewArg(1, NoInt, None, FALSE),
    ViewArg(NoInt, NoInt, food, TRUE) }

SummaryInputs ==
  { ViewArg(NoInt, NoInt, None, FALSE) }

DeleteInputs == (-1)..MaxRows

(* ------------------------------- main() ------------------------------- *)

NoCmd ==
  [name |-> "none", amount |-> Fin(0), description |-> None, category |-> None,
   date |-> None, today |-> None, index |-> NoInt, month |-> NoInt,
   year |-> NoInt, showIndex |-> FALSE]

RW == [r |-> TRUE, w |-> TRUE]

StoreInit ==
  /\ file = File(FALSE, <<>>)
  /\ perm = RW
  /\ cmd = NoCmd
  /\ pre = File(FALSE, <<>>)
  /\ ensured = File(FALSE, <<>>)
  /\ ok = FALSE
  /\ err = "none"
  /\ shown = <<>>
  /\ total = Fin(0)

FilterIdle ==
  /\ fRecords = <<>>
  /\ fMonth = NoInt
  /\ fYear = NoInt
  /\ fToday = None
  /\ fApplied = FALSE
  /\ fResult = [ok |-> TRUE, recs |-> <<>>]

Init == StoreInit /\ FilterIdle

\* storage = ExpenseStorage() (line 229): what every command starts with.
\* err = "io" stands for an OSError that leaves main().
Constructed == EnsureFileExists(file, perm)

\* argparse refuses the amount (validate_amount raises ArgumentTypeError):
\* the process exits before any storage is built.
AddRejected(a) ==
  /\ ~ValidateAmount(a.amount)
  /\ cmd' = [NoCmd EXCEPT !.name = "add", !.amount = a.amount,
                          !.description = a.description,
                          !.category = a.category, !.date = a.date]
  /\ pre' = file
  /\ ensured' = file
  /\ err' = "usage"
  /\ ok' = FALSE
  /\ shown' = <<>>
  /\ total' = Fin(0)
  /\ UNCHANGED <<file, perm>>

\* case "add" (lines 234-238); the category defaults to "General" (line 210).
Add(a, today) ==
  /\ ValidateAmount(a.amount)
  /\ \E c \in {Constructed},
        category \in {IF a.category = None THEN General ELSE a.category} :
      \E s \in {SaveExpense(c.file, perm, a.amount, category, a.description,
                            a.date, today)} :
         /\ cmd' = [NoCmd EXCEPT !.name = "add", !.amount = a.amount,
                                 !.description = a.description,
                                 !.category = category, !.date = a.date,
                                 !.today = today]
         /\ pre' = file
         /\ ensured' = c.file
         /\ IF c.raised
            THEN /\ err' = "io"
                 /\ ok' = FALSE
                 /\ file' = c.file
            ELSE /\ err' = "none"
                 /\ ok' = s.ok
                 /\ file' = s.file
         /\ shown' = <<>>
         /\ total' = Fin(0)
         /\ UNCHANGED perm

\* The records "list" and "summary" work on (lines 241-245, 252-256).
Selected(f, p, v, today) ==
  CHOOSE ex \in
    { IF ~byMonth.ok THEN byMonth
      ELSE [ok |-> TRUE,
            recs |-> IF v.category # None /\ v.category # <<>>
                     THEN FilterByCategory(byMonth.recs, v.category)
                     ELSE byMonth.recs] :
        byMonth \in { IF v.month # NoInt /\ v.month # 0
                      THEN FilterByMonth(ex0, v.month, v.year, today)
                      ELSE [ok |-> TRUE, recs |-> ex0] :
                        ex0 \in {LoadExpenses(f, p)} } } : TRUE

ViewCmd(name, v, today) ==
  [NoCmd EXCEPT !.name = name, !.month = v.month, !.year = v.year,
                !.category = v.category, !.showIndex = v.showIndex,
                !.today = today]

\* case "list" (lines 240-249).  err = "value" stands for the ValueError of
\* strptime leaving main().
List(v, today) ==
  \E c \in {Constructed} : \E ex \in {Selected(c.file, perm, v, today)} :
      /\ cmd' = ViewCmd("list", v, today)
      /\ pre' = file
      /\ ensured' = c.file
      /\ file' = c.file
      /\ ok' = FALSE
      /\ IF c.raised
         THEN err' = "io" /\ shown' = <<>> /\ total' = Fin(0)
         ELSE IF ~ex.ok
         THEN err' = "value" /\ shown' = <<>> /\ total' = Fin(0)
         ELSE /\ err' = "none"
              /\ shown' = FormatTable(ex.recs, v.showIndex)
              /\ total' = SumAmounts(ex.recs, 1)
      /\ UNCHANGED perm

\* case "summary" (lines 251-258): of the printed statistics the model keeps
\* the total; shown stays empty.
Summary(v, today) ==
  \E c \in {Constructed} : \E ex \in {Selected(c.file, perm, v, today)} :
      /\ cmd' = ViewCmd("summary", v, today)
      /\ pre' = file
      /\ ensured' = c.file
      /\ file' = c.file
      /\ ok' = FALSE
      /\ shown' = <<>>
      /\ IF c.raised
         THEN err' = "io" /\ total' = Fin(0)
         ELSE IF ~ex.ok \/ FormatSummaryRaises(ex.recs)
         THEN err' = "value" /\ total' = Fin(0)
         ELSE err' = "none" /\ total' = SumAmounts(ex.recs, 1)
      /\ UNCHANGED perm

\* case "delete" (lines 260-266).
Delete(index) ==
  \E c \in {Constructed} : \E d \in {DeleteExpense(c.file, perm, index)} :
      /\ cmd' = [NoCmd EXCEPT !.name = "delete", !.index = index]
      /\ pre' = file
      /\ ensured' = c.file
      /\ IF c.raised
         THEN err' = "io" /\ ok' = FALSE /\ file' = c.file
         ELSE /\ err' = IF d.raised THEN "io" ELSE "none"
              /\ ok' = (d.ok /\ ~d.raised)
              /\ file' = d.file
      /\ shown' = <<>>
      /\ total' = Fin(0)
      /\ UNCHANGED perm

\* The environment changes what the process may do with the backing file.
Chmod(p) ==
  /\ perm' = p
  /\ perm # p
  /\ UNCHANGED <<file, cmd, pre, ensured, ok, err, shown, total>>

\* The store holds fewer than MaxRows records: an add command is explored.
RoomLeft == Len(LoadExpenses(Constructed.file, RW)) < MaxRows

Next ==
  \/ \E a \in AddInputs : AddRejected(a) /\ UNCHANGED filterVars
  \/ RoomLeft /\ \E a \in AddInputs, today \in Todays : Add(a, today) /\ UNCHANGED filterVars
  \/ \E v \in ListInputs, today \in Todays : List(v, today) /\ UNCHANGED filterVars
  \/ \E v \in SummaryInputs, today \in Todays : Summary(v, today) /\ UNCHANGED filterVars
  \/ \E i \in DeleteInputs : Delete(i) /\ UNCHANGED filterVars

\* The commands run one after another on a file system that never fails.
Spec == Init /\ [][Next]_vars

NextIO ==
  \/ Next
  \/ \E p \in Perms : Chmod(p) /\ UNCHANGED filterVars

\* The commands on a file system whose permissions change under them.
SpecIO == Init /\ [][NextIO]_vars

(* --------------------- filter_by_month on its own ---------------------- *)

Rec(d, a, c, t) == [date |-> d, amount |-> a, category |-> c, description |-> t]

\* Records handed to filter_by_month: two of January 2025, one of February
\* 2025, one of January 2024, and one whose date strptime rejects.
FilterRecords ==
  { Rec(DateJan, Fin(26880), Food, <<"x">>),
    Rec(DateJan, Fin(6400), General, <<"y">>),
    Rec(DateFeb, Fin(6400), food, <<"x">>),
    Rec(DateOld, Fin(64), Food, <<"x">>),
    Rec(DateSlash, Fin(64), Food, <<"x">>) }

RecordSeqs == UNION {[1..n -> FilterRecords] : n \in 0..MaxRecs}

InitFilter ==
  /\ StoreInit
  /\ fRecords \in RecordSeqs
  /\ fMonth \in {1, 2, 12}
  /\ fYear \in {2024, 2025, NoInt}
  /\ fToday \in Todays
  /\ fApplied = FALSE
  /\ fResult = [ok |-> TRUE, recs |-> <<>>]

\* One call of ExpenseAnalyzer.filter_by_month(records, month, year).
ApplyFilter ==
  /\ ~fApplied
  /\ fApplied' = TRUE
  /\ fResult' = FilterByMonth(fRecords, fMonth, fYear, fToday)
  /\ UNCHANGED <<fRecords, fMonth, fYear, fToday, storeVars>>

NextFilter == ApplyFilter

\* filter_by_month applied once to each input of the bounded input space.
SpecFilter == InitFilter /\ [][NextFilter]_vars

(* ------------------------------ properties ---------------------------- *)

\* The records load_expenses returns for a file that can be read.
Loaded(f) == LoadExpenses(f, RW)

\* The header line as the bytes of the file.
HeaderText ==
  <<"d", "a", "t", "e", ",", "a", "m", "o", "u", "n", "t", ",",
    "c", "a", "t", "e", "g", "o", "r", "y", ",",
    "d", "e", "s", "c", "r", "i", "p", "t", "i", "o", "n", "\r", "\n">>

\* A date text of the form YYYY-MM-DD naming a day of the calendar.
CanonYear(t) == NatVal(SubSeq(t, 1, 4))
CanonMonth(t) == NatVal(SubSeq(t, 6, 7))
CanonDay(t) == NatVal(SubSeq(t, 9, 10))

IsCanonical(t) ==
  /\ Len(t) = 10
  /\ t[5] = "-" /\ t[8] = "-"
  /\ \A i \in {1, 2, 3, 4, 6, 7, 9, 10} : IsDigit(t[i])
  /\ CanonYear(t) >= 1
  /\ CanonMonth(t) \in 1..12
  /\ CanonDay(t) >= 1 /\ CanonDay(t) <= DaysInMonth(CanonYear(t), CanonMonth(t))

\* An amount field of the form digits "." digit digit.
TwoDecimals(t) ==
  /\ Len(t) >= 4
  /\ t[Len(t) - 2] = "."
  /\ \A i \in 1..Len(t) : i # Len(t) - 2 => IsDigit(t[i])

\* C1: a delete command whose index i satisfies 0 <= i < count reports
\* success, and load afterwards returns what load returned before the call
\* with the element at position i removed: one record fewer, the records
\* before i unchanged in place, the records after i unchanged and moved up.
C1_DeleteRemovesExactlyThatRecord ==
  cmd.name = "delete" =>
    \A before \in {Loaded(ensured)} :
      (0 <= cmd.index /\ cmd.index < Len(before)) =>
        \A after \in {Loaded(file)} :
          /\ ok
          /\ Len(after) = Len(before) - 1
          /\ \A j \in 1..Len(after) :
               after[j] = before[IF j <= cmd.index THEN j ELSE j + 1]

\* A delete of the middle record of a store of three that succeeded.
C1_Witness ==
  /\ cmd.name = "delete"
  /\ cmd.index = 1
  /\ ok
  /\ Len(Loaded(ensured)) = 3
  /\ Len(Loaded(file)) = 2

\* C2: a delete command whose index is negative or >= count reports failure
\* and leaves the backing file exactly as it was before the call.
C2_DeleteOutOfRangeChangesNothing ==
  cmd.name = "delete" =>
    \A before \in {Loaded(ensured)} :
      (cmd.index < 0 \/ cmd.index >= Len(before)) =>
        /\ ~ok
        /\ err = "none"
        /\ file = ensured

\* A delete with a negative index on a store that holds records.
C2_Witness ==
  /\ cmd.name = "delete"
  /\ cmd.index = -1
  /\ ~ok
  /\ Len(Loaded(file)) >= 2

\* C3: after a successful save, load returns what it returned before followed
\* by one new last record with the date, category and description of the
\* arguments and an amount within 0.01 of the argument.  Stated for a date
\* argument that is given and not empty.
C3_SaveThenLoadRoundTrip ==
  (cmd.name = "add" /\ err = "none" /\ ok) =>
    \A before \in {Loaded(ensured)}, after \in {Loaded(file)} :
      /\ Len(after) = Len(before) + 1
      /\ SubSeq(after, 1, Len(before)) = before
      /\ after[Len(after)].category = cmd.category
      /\ after[Len(after)].description = cmd.description
      /\ (cmd.date # None /\ cmd.date # <<>>) => after[Len(after)].date = cmd.date
      /\ after[Len(after)].amount.n - cmd.amount.n < 64
      /\ cmd.amount.n - after[Len(after)].amount.n < 64

\* C4: the amount field of every data row of the backing file has exactly
\* two fractional digits, after any sequence of add and delete commands.
C4_AmountsKeepTwoDecimals ==
  file.exists =>
    \A rows \in {CsvRows(file.text)} :
      \A i \in 2..Len(rows) : TwoDecimals(rows[i][2])

\* C5: no I/O failure leaves main(): every command reaches its result line.
C5_IoFailureNeverPropagates == err # "io"

\* C6: every record load returns has a canonical date, and filter_by_month
\* never fails to parse a date of a loaded record.
C6_LoadedDatesAreCanonical ==
  /\ err # "value"
  /\ \A recs \in {Loaded(file)} :
       \A i \in 1..Len(recs) : IsCanonical(recs[i].date)

\* C7: every record load returns has an amount > 0.
C7_LoadedAmountsArePositive ==
  \A recs \in {Loaded(file)} :
    \A i \in 1..Len(recs) : FloatGtZero(recs[i].amount)

\* C8: constructing the storage on a backing file that exists leaves the file
\* as it is; on an absent file it creates the file with the header row alone;
\* load returns the same sequence before and after.
C8_EnsureIsIdempotent ==
  (cmd.name # "none" /\ err # "usage") =>
    /\ pre.exists => ensured = pre
    /\ ~pre.exists => ensured = File(TRUE, HeaderText)
    /\ ensured # pre => Loaded(ensured) = Loaded(pre)

\* The storage was constructed on a file that held two records or more.
C8_Witness ==
  /\ cmd.name = "list"
  /\ err = "none"
  /\ pre.exists
  /\ Len(Loaded(pre)) >= 2
  /\ ensured = pre

\* C9: on records with canonical dates, filter_by_month(records, m, y) is the
\* subsequence of the records whose date has month m and year y, in input
\* order (y being the current year when no year is given).
C9_FilterByMonthSelectsExactly ==
  (fApplied /\ \A i \in 1..Len(fRecords) : IsCanonical(fRecords[i].date)) =>
    LET y == IF fYear = NoInt THEN CanonYear(fToday) ELSE fYear
        InMonth(e) == CanonMonth(e.date) = fMonth /\ CanonYear(e.date) = y
    IN  /\ fResult.ok
        /\ fResult.recs = SelectSeq(fRecords, InMonth)

\* The filter kept the first and the third of three records and dropped the
\* second, which is of the same month in another year.
C9_Witness ==
  /\ fApplied
  /\ Len(fRecords) = 3
  /\ fRecords[2].date = DateOld
  /\ fMonth = 1
  /\ fYear = 2025
  /\ fResult.ok
  /\ fResult.recs = <<fRecords[1], fRecords[3]>>
  /\ fRecords[1] # fRecords[3]

\* C10: the index list --show-index prints beside a record is the record's
\* position in load order, whatever filters are given.
C10_ShownIndexIsLoadRank ==
  (cmd.name = "list" /\ cmd.showIndex /\ err = "none") =>
    \A recs \in {Loaded(file)} :
      \A k \in 1..Len(shown) :
        /\ shown[k].idx + 1 <= Len(recs)
        /\ recs[shown[k].idx + 1] = shown[k].rec

====
